---- MODULE Spec2Model ----
(***************************************************************************)
(* Model of src/app.py: a Streamlit script that is re-executed top to      *)
(* bottom on every interaction.  The session state holds a rolling 7-day   *)
(* history; three HTTP/LLM clients are called when the report button is    *)
(* pressed.                                                                *)
(*                                                                         *)
(* Calendar days are day ordinals 0..MaxDay; datetime.now() is an input    *)
(* of each operation that reads it.  strftime("%Y-%m-%d") is               *)
(* modelled by DateStr: a fixed-width, zero-padded, most-significant-first *)
(* digit string; the history is sorted on these strings, not on the days.  *)
(* A session can start on any day from SampleDays on, so that the six      *)
(* sample days before it are days of the model.                            *)
(*                                                                         *)
(* The text generate_report sends (persona instructions, summary lines,    *)
(* the JSON payload) is not part of the state: it is built from strings,   *)
(* integers and values parsed from JSON, which json.dumps always accepts.  *)
(***************************************************************************)
EXTENDS Integers, Sequences, FiniteSets, TLC

VARIABLES
    hasHistory,       \* "history" in st.session_state
    history,          \* st.session_state.history
    pc,               \* position of the running script
    runs,             \* script executions completed in this session
    openai_key, owm_key,          \* sidebar inputs
    flags, mood, city, btn,       \* main-page widgets
    checked, completed_count, rate,        \* values computed by the script
    weather, dog, report,         \* locals of the report section
    row,              \* the record built by the last _upsert_today call
    touched,          \* the dates _upsert_today has been called on
    calls,            \* functions invoked by the current script execution
    requests,         \* network requests issued by the current execution
    raised,           \* an exception escaped to the script
    weatherCache, dogCache        \* st.cache_data stores

vars == <<hasHistory, history, pc, runs, openai_key, owm_key, flags, mood,
          city, btn, checked, completed_count, rate, weather, dog,
          report, row, touched, calls, requests, raised, weatherCache, dogCache>>

(***************************************************************************)
(* Bounds                                                                  *)
(***************************************************************************)
MaxDay == 10          \* calendar days are 0..MaxDay
MaxRuns == 1          \* script executions of a session, report section included
MaxStoreRuns == 2     \* script executions of a session that only checks in

Days == 0..MaxDay

(***************************************************************************)
(* Program constants                                                       *)
(***************************************************************************)
KeepDays == 7
SampleDays == 6
HabitCount == 5
PlaceholderMood == 5
DefaultMood == 7

habits == <<"wake", "water", "study", "exercise", "sleep">>
preset_rates == <<40, 60, 80, 20, 100, 60>>
preset_moods == <<5, 6, 7, 4, 8, 6>>

None == {}
Some(v) == {v}

(***************************************************************************)
(* Dates                                                                   *)
(***************************************************************************)
\* A date format that does not pad: "%-d" for "%d".
DateStr_unpadded(d) == IF d < 10 THEN <<d>> ELSE <<d \div 10, d % 10>>

\* strftime("%Y-%m-%d"): zero-padded fixed-width fields, most significant first.
DateStr(d) == <<d \div 10, d % 10>>

\* Python's str comparison: lexicographic, a proper prefix is smaller.
RECURSIVE StrLess(_, _)
StrLess(a, b) ==
    IF b = <<>> THEN FALSE
    ELSE IF a = <<>> THEN TRUE
    ELSE IF Head(a) # Head(b) THEN Head(a) < Head(b)
    ELSE StrLess(Tail(a), Tail(b))

(***************************************************************************)
(* Numbers                                                                 *)
(***************************************************************************)
\* Python's round() of the quotient num/den: nearest integer, ties to even.
Round(num, den) ==
    LET q == num \div den
        r == num % den
    IN  IF 2 * r < den THEN q
        ELSE IF 2 * r > den THEN q + 1
        ELSE IF q % 2 = 0 THEN q ELSE q + 1

(***************************************************************************)
(* History store                                                           *)
(***************************************************************************)
\* sorted(hist, key=lambda x: x["date"]): a stable sort on the date strings.
RECURSIVE Insert(_, _)
Insert(r, s) ==
    IF s = <<>> THEN <<r>>
    ELSE IF StrLess(r.date, Head(s).date) THEN <<r>> \o s
    ELSE <<Head(s)>> \o Insert(r, Tail(s))

RECURSIVE sorted(_)
sorted(s) ==
    IF s = <<>> THEN <<>>
    ELSE Insert(s[Len(s)], sorted(SubSeq(s, 1, Len(s) - 1)))

\* s[:n] for s[-n:]
LastN_first(s, n) == IF Len(s) <= n THEN s ELSE SubSeq(s, 1, n)

\* s[-n:]
LastN(s, n) == IF Len(s) <= n THEN s ELSE SubSeq(s, Len(s) - n + 1, Len(s))

\* the loop of _init_history_if_needed: i = 6, 5, ..., 1
sample_prior(today) ==
    [k \in 1..SampleDays |->
        [date |-> DateStr(today - (SampleDays + 1 - k)),
         rate |-> preset_rates[k],
         completed |-> Round(preset_rates[k] * HabitCount, 100),
         mood |-> preset_moods[k]]]

sample(today) ==
    Append(sample_prior(today),
           [date |-> DateStr(today), rate |-> 0, completed |-> 0,
            mood |-> PlaceholderMood])

\* next((i for i, r in enumerate(hist) if r["date"] == today_str), None)
FindIdx(hist, today_str) ==
    LET hits == {i \in 1..Len(hist) : hist[i].date = today_str}
    IN  IF hits = {} THEN 0 ELSE CHOOSE i \in hits : \A j \in hits : i <= j

NewRow(today, r, c, m) ==
    [date |-> DateStr(today), rate |-> r, completed |-> c, mood |-> m]

\* _upsert_today replacing the first record instead of the one found
upserted_wrong_index(hist, today, r, c, m) ==
    LET idx == FindIdx(hist, DateStr(today))
        h2 == IF idx = 0 THEN Append(hist, NewRow(today, r, c, m))
              ELSE [hist EXCEPT ![1] = NewRow(today, r, c, m)]
    IN  LastN(sorted(h2), KeepDays)

\* _upsert_today appending without looking for today's record
upserted_always_append(hist, today, r, c, m) ==
    LastN(sorted(Append(hist, NewRow(today, r, c, m))), KeepDays)

\* the history _upsert_today stores
upserted(hist, today, r, c, m) ==
    LET idx == FindIdx(hist, DateStr(today))
        h2 == IF idx = 0 THEN Append(hist, NewRow(today, r, c, m))
              ELSE [hist EXCEPT ![idx] = NewRow(today, r, c, m)]
    IN  LastN(sorted(h2), KeepDays)

(***************************************************************************)
(* External clients.  A call's outcome is <<value returned, whether an     *)
(* exception left the function, network requests issued>>.                 *)
(***************************************************************************)
Ret(v, n) == [ret |-> v, raised |-> FALSE, requests |-> n]
Raise(n) == [ret |-> None, raised |-> TRUE, requests |-> n]

\* try: ... except Exception: return None
except_Exception(r) == IF r.raised THEN Ret(None, r.requests) ELSE r

Keys == {"", "key"}
Cities == {"Seoul", "Busan"}

\* What the OpenWeatherMap endpoint does with one request.
WeatherUpstream ==
    {"timeout", "http_500", "not_json", "json_array", "json_no_fields", "ok"}

\* the try block of get_weather
get_weather_try(c, up) ==
    CASE up = "timeout"        -> Raise(1)      \* requests.get raises
      [] up = "http_500"       -> Ret(None, 1)  \* status_code != 200
      [] up = "not_json"       -> Raise(1)      \* r.json() raises
      [] up = "json_array"     -> Raise(1)      \* data.get: AttributeError
      [] up = "json_no_fields" ->
            Ret(Some([city |-> c, description |-> None, temp |-> None]), 1)
      [] up = "ok"             ->
            Ret(Some([city |-> c, description |-> Some("clear"),
                      temp |-> Some(21)]), 1)

\* get_weather without its api_key check
get_weather_no_key_check(c, api_key, up) ==
    except_Exception(get_weather_try(c, up))

get_weather(c, api_key, up) ==
    IF api_key = "" THEN Ret(None, 0)
    ELSE except_Exception(get_weather_try(c, up))

\* What the Dog CEO endpoint does with one request.
DogUpstream ==
    {"timeout", "http_500", "not_json", "status_error", "no_message",
     "url_with_breed", "url_without_breed"}

\* re.search(r"/breeds/([^/]+)/", img_url), "-" replaced by " "
breed_of(up) == IF up = "url_with_breed" THEN "shiba inu" ELSE "unknown"

get_dog_image_try(up) ==
    CASE up = "timeout"      -> Raise(1)
      [] up = "http_500"     -> Ret(None, 1)
      [] up = "not_json"     -> Raise(1)
      [] up = "status_error" -> Ret(None, 1)
      [] up = "no_message"   -> Ret(None, 1)
      [] OTHER               -> Ret(Some([url |-> up, breed |-> breed_of(up)]), 1)

get_dog_image(up) == except_Exception(get_dog_image_try(up))

\* What the OpenAI Responses endpoint does with one request.
ReportUpstream == {"api_error", "no_text", "blank_text", "text"}

\* the try block of generate_report; the lines before it (141-184) build
\* the prompt and do not raise
generate_report_try(up) ==
    CASE up = "api_error"  -> Raise(1)       \* client.responses.create raises
      [] up = "no_text"    -> Ret(None, 1)   \* output_text is None or ""
      [] up = "blank_text" -> Ret(None, 1)   \* "  ".strip() or None
      [] up = "text"       -> Ret(Some("report"), 1)

\* generate_report without its except clause
generate_report_no_except(openai_api_key, up) ==
    IF openai_api_key = "" THEN Ret(None, 0)
    ELSE generate_report_try(up)

generate_report(openai_api_key, up) ==
    IF openai_api_key = "" THEN Ret(None, 0)
    ELSE except_Exception(generate_report_try(up))

\* @st.cache_data: a stored value is returned without running the function;
\* a value the function returns is stored under its arguments.
CacheHit(cache, key) == \E e \in cache : e.key = key
CacheGet(cache, key) == (CHOOSE e \in cache : e.key = key).value
CachePut(cache, key, r) ==
    IF r.raised THEN cache
    ELSE {e \in cache : e.key # key} \cup {[key |-> key, value |-> r.ret]}

cached_get_weather(c, api_key, up) ==
    IF CacheHit(weatherCache, <<c, api_key>>)
    THEN Ret(CacheGet(weatherCache, <<c, api_key>>), 0)
    ELSE get_weather(c, api_key, up)

cached_get_dog_image(up) ==
    IF CacheHit(dogCache, <<>>) THEN Ret(CacheGet(dogCache, <<>>), 0)
    ELSE get_dog_image(up)

(***************************************************************************)
(* The script                                                              *)
(***************************************************************************)
MinMood == 1
MaxMood == 10

Flags == [1..HabitCount -> BOOLEAN]
NoFlags == [i \in 1..HabitCount |-> FALSE]
NoRequests == [owm |-> 0, dog |-> 0, openai |-> 0]

\* Inputs of the session specifications: nothing or three habits checked,
\* the slider left alone or moved onto the placeholder's mood.
ThreeChecked == [i \in 1..HabitCount |-> i \in {1, 2, 5}]
FlagChoices == {NoFlags, ThreeChecked}
MoodChoices == {DefaultMood, PlaceholderMood}

RECURSIVE CheckedFrom(_, _)
\* for (emoji, name), is_on in zip(habits, flags): if is_on: checked.append(name)
CheckedFrom(f, i) ==
    IF i > HabitCount THEN <<>>
    ELSE (IF f[i] THEN <<habits[i]>> ELSE <<>>) \o CheckedFrom(f, i + 1)

RECURSIVE SumFrom(_, _)
\* sum(flags)
SumFrom(f, i) ==
    IF i > HabitCount THEN 0
    ELSE (IF f[i] THEN 1 ELSE 0) + SumFrom(f, i + 1)

\* completed_count // 5 * 100
rate_of_floor(c) == (c \div HabitCount) * 100

\* int(round(completed_count / 5 * 100))
rate_of(c) == Round(c * 100, HabitCount)

store == <<hasHistory, history, row, touched>>
caches == <<weatherCache, dogCache>>
sidebar == <<openai_key, owm_key>>
widgets == <<flags, mood, city, checked, completed_count, rate>>
results == <<weather, dog, report>>

Init ==
    /\ hasHistory = FALSE /\ history = <<>>
    /\ pc = "idle" /\ runs = 0
    /\ openai_key = "" /\ owm_key = ""
    /\ flags = NoFlags /\ mood = DefaultMood /\ city = "Seoul" /\ btn = FALSE
    /\ checked = <<>> /\ completed_count = 0 /\ rate = 0
    /\ weather = None /\ dog = None /\ report = None
    /\ calls = <<>> /\ requests = NoRequests /\ raised = FALSE
    /\ row = None /\ touched = {}
    /\ weatherCache = {} /\ dogCache = {}

\* A rerun is triggered; lines 19-34 read the two keys from the sidebar.
StartRun(K, limit) ==
    /\ pc \in {"idle", "aborted"}
    /\ runs < limit
    /\ \E ok \in K, wk \in K : openai_key' = ok /\ owm_key' = wk
    /\ flags' = NoFlags /\ mood' = DefaultMood /\ city' = "Seoul"
    /\ btn' = FALSE
    /\ checked' = <<>> /\ completed_count' = 0 /\ rate' = 0
    /\ weather' = None /\ dog' = None /\ report' = None
    /\ calls' = <<>> /\ requests' = NoRequests /\ raised' = FALSE
    /\ pc' = "init"
    /\ UNCHANGED <<store, caches, runs>>

\* _init_history_if_needed without its "history" in st.session_state check
InitHistory_always ==
    /\ pc = "init"
    /\ \E today \in SampleDays..MaxDay :
          /\ history' = sample(today)
          /\ hasHistory' = TRUE
    /\ calls' = Append(calls, "_init_history_if_needed")
    /\ pc' = "checkin"
    /\ UNCHANGED <<row, touched, caches, runs, sidebar, widgets, btn, results,
                   requests, raised>>

\* _init_history_if_needed(), called at line 253
InitHistoryIfNeeded ==
    /\ pc = "init"
    /\ IF hasHistory
       THEN UNCHANGED <<hasHistory, history>>
       ELSE \E today \in SampleDays..MaxDay :
               /\ history' = sample(today)
               /\ hasHistory' = TRUE
    /\ calls' = Append(calls, "_init_history_if_needed")
    /\ pc' = "checkin"
    /\ UNCHANGED <<row, touched, caches, runs, sidebar, widgets, btn, results,
                   requests, raised>>

\* lines 262-315: the widgets are read and the metrics computed
CheckInFrom(F, M, C) ==
    /\ pc = "checkin"
    /\ \E f \in F, m \in M, c \in C :
          /\ flags' = f /\ mood' = m /\ city' = c
          /\ checked' = CheckedFrom(f, 1)
          /\ completed_count' = SumFrom(f, 1)
          /\ rate' = rate_of(SumFrom(f, 1))
    /\ pc' = "upsert"
    /\ UNCHANGED <<store, caches, runs, sidebar, btn, results, calls, requests,
                   raised>>

\* _upsert_today(rate=rate, completed=completed_count, mood=mood), line 318
UpsertToday ==
    /\ pc = "upsert"
    /\ \E today \in Days :
          /\ history' = upserted(history, today, rate, completed_count, mood)
          /\ row' = Some(NewRow(today, rate, completed_count, mood))
          /\ touched' = touched \cup {today}
    /\ calls' = Append(calls, "_upsert_today")
    /\ pc' = "button"
    /\ UNCHANGED <<hasHistory, caches, runs, sidebar, widgets, btn, results,
                   requests, raised>>

\* btn = st.button(...), line 334; if btn: ..., line 340
ButtonFrom(B) ==
    /\ pc = "button"
    /\ \E b \in B : btn' = b /\ pc' = IF b THEN "weather" ELSE "expander"
    /\ UNCHANGED <<store, caches, runs, sidebar, widgets, results, calls,
                   requests, raised>>

\* an exception a call lets out ends the script run
Step(r, next) ==
    /\ raised' = r.raised
    /\ pc' = IF r.raised THEN "aborted" ELSE next

\* weather = get_weather(city, owm_key) if owm_key else None, line 342
FetchWeatherFrom(U) ==
    /\ pc = "weather"
    /\ IF owm_key # ""
       THEN \E up \in U :
               LET r == cached_get_weather(city, owm_key, up) IN
               /\ weather' = r.ret
               /\ requests' = [requests EXCEPT !.owm = @ + r.requests]
               /\ weatherCache' =
                     IF CacheHit(weatherCache, <<city, owm_key>>) THEN weatherCache
                     ELSE CachePut(weatherCache, <<city, owm_key>>, r)
               /\ calls' = Append(calls, "get_weather")
               /\ Step(r, "dog")
       ELSE /\ weather' = None
            /\ pc' = "dog"
            /\ UNCHANGED <<requests, weatherCache, calls, raised>>
    /\ UNCHANGED <<store, dogCache, runs, sidebar, widgets, btn, dog, report>>

\* the image call made again when it returned nothing
FetchDogFrom_retry(U) ==
    /\ pc = "dog"
    /\ \E up \in U :
          LET r == cached_get_dog_image(up) IN
          /\ dog' = r.ret
          /\ requests' = [requests EXCEPT !.dog = @ + r.requests]
          /\ dogCache' = IF CacheHit(dogCache, <<>>) THEN dogCache
                         ELSE CachePut(dogCache, <<>>, r)
          /\ Step(r, IF r.ret = None THEN "dog" ELSE "report")
    /\ calls' = Append(calls, "get_dog_image")
    /\ UNCHANGED <<store, weatherCache, runs, sidebar, widgets, btn, weather,
                   report>>

\* dog = get_dog_image(), line 343
FetchDogFrom(U) ==
    /\ pc = "dog"
    /\ \E up \in U :
          LET r == cached_get_dog_image(up) IN
          /\ dog' = r.ret
          /\ requests' = [requests EXCEPT !.dog = @ + r.requests]
          /\ dogCache' = IF CacheHit(dogCache, <<>>) THEN dogCache
                         ELSE CachePut(dogCache, <<>>, r)
          /\ Step(r, "report")
    /\ calls' = Append(calls, "get_dog_image")
    /\ UNCHANGED <<store, weatherCache, runs, sidebar, widgets, btn, weather,
                   report>>

\* report = generate_report(openai_api_key=openai_key, ...), lines 345-355
GenerateReportFrom(U) ==
    /\ pc = "report"
    /\ \E up \in U :
          LET r == generate_report(openai_key, up) IN
          /\ report' = r.ret
          /\ requests' = [requests EXCEPT !.openai = @ + r.requests]
          /\ Step(r, "display")
    /\ calls' = Append(calls, "generate_report")
    /\ UNCHANGED <<store, caches, runs, sidebar, widgets, btn, weather, dog>>

\* lines 357-409: the three panels and the share text
Display ==
    /\ pc = "display"
    /\ pc' = "expander"
    /\ UNCHANGED <<store, caches, runs, sidebar, widgets, btn, results, calls,
                   requests, raised>>

\* lines 415-428: the script reaches its end
Finish ==
    /\ pc = "expander"
    /\ pc' = "idle"
    /\ runs' = runs + 1
    /\ UNCHANGED <<store, caches, sidebar, widgets, btn, results, calls,
                   requests, raised>>

\* ttl=600: a stored value expires
CacheExpire ==
    /\ \/ \E e \in weatherCache :
             weatherCache' = weatherCache \ {e} /\ UNCHANGED dogCache
       \/ \E e \in dogCache :
             dogCache' = dogCache \ {e} /\ UNCHANGED weatherCache
    /\ UNCHANGED <<store, pc, runs, sidebar, widgets, btn, results, calls,
                   requests, raised>>

(***************************************************************************)
(* Spec: a session in which every part of the script runs: keys are        *)
(* entered or not, the report button is pressed or not, every upstream     *)
(* failure can happen.  The check-in is three habits at the default mood.  *)
(***************************************************************************)
Rerun == StartRun(Keys, MaxRuns)
CheckIn == CheckInFrom({ThreeChecked}, {DefaultMood}, {"Seoul"})
Button == ButtonFrom(BOOLEAN)
FetchWeather ==
    FetchWeatherFrom({"timeout", "http_500", "not_json", "json_array", "ok"})
FetchDog ==
    FetchDogFrom({"timeout", "http_500", "not_json", "status_error",
                  "no_message", "url_with_breed"})
GenerateReport == GenerateReportFrom(ReportUpstream)

Next ==
    \/ Rerun
    \/ InitHistoryIfNeeded
    \/ CheckIn
    \/ UpsertToday
    \/ Button
    \/ FetchWeather
    \/ FetchDog
    \/ GenerateReport
    \/ Display
    \/ Finish
    \/ CacheExpire

Spec == Init /\ [][Next]_vars

(***************************************************************************)
(* SpecStore: a session in which the user only checks in: no key is        *)
(* entered and the report button is not pressed.  Lines 340-409 neither    *)
(* read nor write st.session_state.                                        *)
(***************************************************************************)
StoreRerun == StartRun({""}, MaxStoreRuns)
StoreCheckIn == CheckInFrom(FlagChoices, MoodChoices, {"Seoul"})
NoButton == ButtonFrom({FALSE})

NextStore ==
    \/ StoreRerun
    \/ InitHistoryIfNeeded
    \/ StoreCheckIn
    \/ UpsertToday
    \/ NoButton
    \/ Finish

SpecStore == Init /\ [][NextStore]_vars

(***************************************************************************)
(* SpecMetrics: one execution of the script, the check-in widgets taking   *)
(* every value they can.                                                   *)
(***************************************************************************)
FirstRun == StartRun({""}, 1)
AnyCheckIn == CheckInFrom(Flags, MinMood..MaxMood, {"Seoul"})

NextMetrics ==
    \/ FirstRun
    \/ InitHistoryIfNeeded
    \/ AnyCheckIn
    \/ UpsertToday
    \/ NoButton
    \/ Finish

SpecMetrics == Init /\ [][NextMetrics]_vars

(***************************************************************************)
(* SpecClients: the three clients called on their own, with every value    *)
(* of their arguments and every upstream outcome.                          *)
(***************************************************************************)
CallGetWeather ==
    /\ \E c \in Cities, k \in Keys, up \in WeatherUpstream :
          LET r == cached_get_weather(c, k, up) IN
          /\ city' = c /\ owm_key' = k
          /\ weather' = r.ret
          /\ requests' = [NoRequests EXCEPT !.owm = r.requests]
          /\ raised' = r.raised
          /\ weatherCache' = IF CacheHit(weatherCache, <<c, k>>) THEN weatherCache
                             ELSE CachePut(weatherCache, <<c, k>>, r)
    /\ calls' = <<"get_weather">>
    /\ dog' = None /\ report' = None
    /\ UNCHANGED <<store, dogCache, pc, runs, openai_key, flags, mood, btn,
                   checked, completed_count, rate>>

CallGetDogImage ==
    /\ \E up \in DogUpstream :
          LET r == cached_get_dog_image(up) IN
          /\ dog' = r.ret
          /\ requests' = [NoRequests EXCEPT !.dog = r.requests]
          /\ raised' = r.raised
          /\ dogCache' = IF CacheHit(dogCache, <<>>) THEN dogCache
                         ELSE CachePut(dogCache, <<>>, r)
    /\ calls' = <<"get_dog_image">>
    /\ weather' = None /\ report' = None
    /\ UNCHANGED <<store, weatherCache, pc, runs, sidebar, widgets, btn>>

CallGenerateReport ==
    /\ \E k \in Keys, up \in ReportUpstream :
          LET r == generate_report(k, up) IN
          /\ openai_key' = k
          /\ report' = r.ret
          /\ requests' = [NoRequests EXCEPT !.openai = r.requests]
          /\ raised' = r.raised
    /\ calls' = <<"generate_report">>
    /\ weather' = None /\ dog' = None
    /\ UNCHANGED <<store, caches, pc, runs, owm_key, widgets, btn>>

NextClients ==
    \/ CallGetWeather
    \/ CallGetDogImage
    \/ CallGenerateReport
    \/ CacheExpire

SpecClients == Init /\ [][NextClients]_vars

(***************************************************************************)
(* Properties                                                              *)
(***************************************************************************)
Rows(h) == {h[i] : i \in 1..Len(h)}
Dates(h) == {h[i].date : i \in 1..Len(h)}

\* the calendar day a date string names (the inverse of strftime)
DayOf(str) == IF Len(str) = 1 THEN str[1] ELSE 10 * str[1] + str[2]

Min(a, b) == IF a < b THEN a ELSE b

NoTwoRecordsShareADate ==
    \A i, j \in 1..Len(history) : i # j => history[i].date # history[j].date

\* the step in which _upsert_today runs, and the record it is called with
UpsertStep == pc = "upsert" /\ pc' = "button"
NewRecord == CHOOSE r \in row' : TRUE

\* the records _upsert_today holds just before it trims
Pool == {r \in Rows(history) : r.date # NewRecord.date} \cup {NewRecord}

\* C1 as claimed: once upsert_today has touched N >= 1 distinct dates the
\* history holds min(N, 7) records, and no two records share a date.
C1_AsClaimed ==
    /\ touched # {} => Len(history) = Min(Cardinality(touched), KeepDays)
    /\ NoTwoRecordsShareADate

\* C1 as amended: the history holds exactly 7 records from seeding on,
\* whatever the number N of dates upsert_today has touched (7 >= min(N, 7),
\* with equality only from N = 7 on), and no two records share a date.
C1_SevenRecordsNoDuplicates ==
    /\ hasHistory => Len(history) = KeepDays
    /\ touched # {} => Len(history) >= Min(Cardinality(touched), KeepDays)
    /\ NoTwoRecordsShareADate

C1_Witness ==
    /\ Cardinality(touched) >= 2
    /\ Len(history) = KeepDays
    /\ pc = "button"

\* C2 as claimed: after upsert_today(rate, completed, mood) the history holds
\* exactly one record dated the current date, carrying the call's arguments.
C2_AsClaimed ==
    \A r \in row :
        /\ Cardinality({i \in 1..Len(history) : history[i].date = r.date}) = 1
        /\ r \in Rows(history)

\* C3: after every upsert_today the history is exactly the 7 latest-dated
\* records of those held before trimming; what is dropped is older than all
\* that is kept.
C3_KeepsSevenLatest ==
    [][UpsertStep =>
        /\ Len(history') = KeepDays
        /\ Cardinality(Rows(history')) = KeepDays
        /\ Rows(history') \subseteq Pool
        /\ \A d \in Pool \ Rows(history') : \A k \in Rows(history') :
              DayOf(d.date) < DayOf(k.date)]_vars

\* an upsert on a later day has pushed the oldest sample record out
C3_Witness ==
    /\ pc = "button"
    /\ \A r \in row : history[KeepDays] = r
    /\ history[1].rate = preset_rates[2] /\ history[1].mood = preset_moods[2]
    /\ history[KeepDays - 1].mood = PlaceholderMood
    /\ history[KeepDays - 1].rate = 0

\* C4: the history is ordered by strictly ascending calendar date.
C4_AscendingDates ==
    \A i, j \in 1..Len(history) :
        i < j => DayOf(history[i].date) < DayOf(history[j].date)

\* an upsert on a later day, the dates running from one digit into two
C4_Witness ==
    /\ pc = "button"
    /\ \A r \in row : history[KeepDays] = r /\ r.date[1] = 1
    /\ history[1].date[1] = 0
    /\ history[KeepDays - 1].mood = PlaceholderMood
    /\ Cardinality(touched) = 1

ExpectedCompleted == <<2, 3, 4, 1, 5, 3>>

\* the 7 records a session starting on day t is seeded with
IsSeedOf(h, t) ==
    /\ Len(h) = 7
    /\ \A k \in 1..6 :
          h[k] = [date |-> DateStr(t - 7 + k), rate |-> preset_rates[k],
                  completed |-> ExpectedCompleted[k], mood |-> preset_moods[k]]
    /\ h[7] = [date |-> DateStr(t), rate |-> 0, completed |-> 0, mood |-> 5]

\* C5: the first _init_history_if_needed call of a session stores the 6 demo
\* records of the days before today and today's placeholder; every later
\* call leaves the history unchanged.
C5_SeedOnceThenNoOp ==
    [][(pc = "init" /\ pc' = "checkin") =>
        IF hasHistory
        THEN history' = history /\ hasHistory'
        ELSE hasHistory' /\ \E t \in Days : IsSeedOf(history', t)]_vars

\* a later call, made after an upsert on a date the seed did not hold
C5_Witness ==
    /\ pc = "checkin"
    /\ runs >= 1
    /\ row # None
    /\ \A t \in Days : ~IsSeedOf(history, t)

\* C10: upsert_today leaves every record of another date as it was, or drops
\* it by trimming; trimming drops a record only when the call added a new
\* date to a history of 7 records, and then only the oldest date.
C10_OtherRecordsUntouched ==
    [][UpsertStep =>
        /\ \A r \in Rows(history) :
              r.date # NewRecord.date =>
                 \/ r \in Rows(history')
                 \/ /\ NewRecord.date \notin Dates(history)
                    /\ Len(history) = KeepDays
                    /\ \A q \in Pool : DayOf(r.date) <= DayOf(q.date)
        /\ Cardinality(Pool \ Rows(history')) <= 1]_vars

\* today's record replaced in place, the six sample records as they were
C10_Witness ==
    /\ pc = "button"
    /\ \E t \in Days :
          /\ \A k \in 1..6 : history[k] = sample(t)[k]
          /\ history[7] = [date |-> DateStr(t), rate |-> 60, completed |-> 3,
                           mood |-> DefaultMood]
    /\ \A r \in row : r = history[7]

\* C8: the values shown as metrics and passed to upsert_today are the count
\* of checked habits and 20 times that count.
C8_RateIsTwentyPerHabit ==
    pc \in {"upsert", "button", "expander"} =>
        /\ completed_count = Cardinality({i \in 1..5 : flags[i]})
        /\ completed_count \in 0..5
        /\ rate = 20 * completed_count
        /\ rate \in {0, 20, 40, 60, 80, 100}
        /\ pc # "upsert" =>
              \A r \in row : /\ r.rate = rate
                             /\ r.completed = completed_count
                             /\ r.mood = mood

\* habits [true, true, false, false, true] at mood 8: 60%, 3/5
C8_Witness ==
    /\ pc = "button"
    /\ flags = <<TRUE, TRUE, FALSE, FALSE, TRUE>>
    /\ mood = 8
    /\ completed_count = 3 /\ rate = 60
    /\ \A r \in row : r.rate = 60 /\ r.completed = 3 /\ r.mood = 8

\* C6: called with an empty credential, get_weather and generate_report
\* return None and issue no network request.
C6_NoCredentialNoRequest ==
    /\ (calls = <<"get_weather">> /\ owm_key = "") =>
          weather = None /\ requests = NoRequests /\ ~raised
    /\ (calls = <<"generate_report">> /\ openai_key = "") =>
          report = None /\ requests = NoRequests /\ ~raised

C6_Witness ==
    /\ calls = <<"get_weather">>
    /\ owm_key = "" /\ city = "Busan"
    /\ weather = None /\ requests.owm = 0
    /\ \E e \in weatherCache : e.key = <<"Busan", "">>

\* a step of the script that calls one of the three clients
ClientStep == pc \in {"weather", "dog", "report"} /\ pc' # pc

\* C7: whatever the upstream does, no exception leaves a client: the script
\* goes on to its next section with a value or None, and the history is
\* what it was.
C7_FailuresStayInClients ==
    /\ [](~raised /\ pc # "aborted")
    /\ [][ClientStep =>
            /\ history' = history /\ hasHistory' = hasHistory
            /\ pc = "weather" => pc' = "dog" /\ Cardinality(weather') <= 1
            /\ pc = "dog" => pc' = "report" /\ Cardinality(dog') <= 1
            /\ pc = "report" => pc' = "display" /\ Cardinality(report') <= 1]_vars

\* all three calls failed upstream and the script ran to its end
C7_Witness ==
    /\ pc = "idle" /\ runs = 1 /\ btn
    /\ owm_key = "key" /\ openai_key = "key"
    /\ weather = None /\ dog = None /\ report = None
    /\ requests = [owm |-> 1, dog |-> 1, openai |-> 1]
    /\ Len(history) = KeepDays

ScriptOrder ==
    <<"_init_history_if_needed", "_upsert_today", "get_weather",
      "get_dog_image", "generate_report">>
PlaceOf(f) == CHOOSE k \in 1..Len(ScriptOrder) : ScriptOrder[k] = f
Called(f) == \E i \in 1..Len(calls) : calls[i] = f

\* C9: a script execution calls upsert_today, then the weather client, the
\* image client and the report generator in that order, each at most once
\* and with at most one request; once the button is pressed the report
\* generator is called whatever the other two returned.
C9_SequentialOnceInOrder ==
    /\ \A i, j \in 1..Len(calls) : i < j => PlaceOf(calls[i]) < PlaceOf(calls[j])
    /\ requests.owm <= 1 /\ requests.dog <= 1 /\ requests.openai <= 1
    /\ (Called("get_weather") \/ Called("get_dog_image")
           \/ Called("generate_report")) => Called("_upsert_today")
    /\ pc = "report" => Called("get_dog_image")
    /\ (pc = "display" \/ (pc = "expander" /\ btn)) =>
          Called("get_dog_image") /\ Called("generate_report")

\* the report generator called after both other clients returned nothing
C9_Witness ==
    /\ pc = "display"
    /\ weather = None /\ dog = None
    /\ calls = ScriptOrder

====
